---- MODULE Spec2Model ----
(***************************************************************************)
(* Package entitlement and command execution of Magic Notebook.            *)
(*                                                                         *)
(* The state is the relational store (user_packages, command_executions,   *)
(* notes), the wall clock, and the HTTP requests in flight.  Every request *)
(* handler is split at the awaits that reach the store, one action per     *)
(* store operation, so that requests of the same user can overlap exactly  *)
(* where the event loop lets them.                                         *)
(***************************************************************************)
EXTENDS Integers, Sequences, FiniteSets, TLC

\* ------------------------------------------------------------------ bounds
MaxInFlight == 2      \* request slots: how many requests may overlap
MaxRequests == 2      \* requests received in one behaviour
Month == 1            \* clock ticks in one calendar month
MaxTime == Month      \* the clock stops here

Users == {1, 2}
Slots == 1..MaxInFlight

\* ----------------------------------------------------------- package catalog
\* Names are kept as word lists; String.includes(word) is membership of the
\* word.  Rows 1-4 are the current seed, row 5 is the seed of the previous
\* storage version (a store seeded by it keeps the row: seeding only
\* happens into an empty table).
TrialLimitPremium == 30
TrialLimitBasic == 15

Packages ==
  << [id |-> 1, name |-> <<"Single", "Trial">>,    price |-> 99,    trialCount |-> 1],
     [id |-> 2, name |-> <<"Monthly", "Basic">>,   price |-> 1500,  trialCount |-> -1],
     [id |-> 3, name |-> <<"Monthly", "Premium">>, price |-> 3000,  trialCount |-> -1],
     [id |-> 4, name |-> <<"Lifetime">>,           price |-> 19900, trialCount |-> -1],
     [id |-> 5, name |-> <<"Basic">>,              price |-> 999,   trialCount |-> 3] >>

PackageIds == DOMAIN Packages

NameIncludes(name, word) == \E i \in DOMAIN name : name[i] = word

\* storage.getPackage: the row with that id, or NoPackage
NoPackage == [id |-> 0, name |-> <<>>, price |-> 0, trialCount |-> 0]

getPackage(id) == IF id \in PackageIds THEN Packages[id] ELSE NoPackage

\* ------------------------------------------------------------------- state
VARIABLES
  userPackages,       \* table user_packages: row id = index
  commandExecutions,  \* table command_executions (the ledger): row id = index
  notes,              \* table notes: row id = index
  now,                \* wall clock, in ticks
  started,            \* number of requests received so far
  reqs,               \* the request handled in each slot
  successes           \* history: per user_packages row, the success rows ledgered for it

vars == <<userPackages, commandExecutions, notes, now, started, reqs, successes>>

Min(a, b) == IF a <= b THEN a ELSE b

Max(a, b) == IF a >= b THEN a ELSE b

\* Date arithmetic: setMonth(getMonth() + 1) / addMonths(d, 1)
AddMonth(t) == t + Month

\* ---------------------------------------------------------- command strings
\* A command is the sequence of its characters.
Str_generateTrial == <<"g","e","n","e","r","a","t","e","T","r","i","a","l">>

AlnumChars ==
  {"a","b","c","d","e","f","g","h","i","j","k","l","m","n","o","p","q","r",
   "s","t","u","v","w","x","y","z",
   "A","B","C","D","E","F","G","H","I","J","K","L","M","N","O","P","Q","R",
   "S","T","U","V","W","X","Y","Z",
   "0","1","2","3","4","5","6","7","8","9"}

DigitChars == {"0","1","2","3","4","5","6","7","8","9"}

\* \s of a JavaScript regular expression (the members a command can carry)
WhitespaceChars == {" ", "\t", "\n", "\r"}

\* what . does not match
LineTerminators == {"\n", "\r"}

SubSeqFrom(s, i) == SubSeq(s, i, Len(s))

StartsWith(s, lit) == Len(s) >= Len(lit) /\ SubSeq(s, 1, Len(lit)) = lit

EndsWith(s, lit) == Len(s) >= Len(lit) /\ SubSeq(s, Len(s) - Len(lit) + 1, Len(s)) = lit

\* length of the longest prefix of s made of characters of class
RECURSIVE RunLen(_, _)
RunLen(s, class) ==
  IF s = <<>> \/ Head(s) \notin class THEN 0 ELSE 1 + RunLen(Tail(s), class)

\* String.trim
RECURSIVE TrimEnd(_)
TrimEnd(s) ==
  IF s = <<>> \/ s[Len(s)] \notin WhitespaceChars THEN s
  ELSE TrimEnd(SubSeq(s, 1, Len(s) - 1))

Trim(s) == TrimEnd(SubSeqFrom(s, RunLen(s, WhitespaceChars) + 1))

\* String.split(sep) for a one-character separator
RECURSIVE Split(_, _)
Split(s, sep) ==
  IF \A i \in DOMAIN s : s[i] # sep THEN <<s>>
  ELSE LET i == CHOOSE j \in DOMAIN s : s[j] = sep /\ \A k \in 1..(j - 1) : s[k] # sep
       IN  <<SubSeq(s, 1, i - 1)>> \o Split(SubSeqFrom(s, i + 1), sep)

\* the prefix ^(!)?generateTrial shared by both regular expressions: the
\* text after the keyword when the prefix matches
AfterKeyword(command) ==
  LET s == IF command # <<>> /\ Head(command) = "!" THEN Tail(command) ELSE command
  IN  IF StartsWith(s, Str_generateTrial)
      THEN [ok |-> TRUE, rest |-> SubSeqFrom(s, Len(Str_generateTrial) + 1)]
      ELSE [ok |-> FALSE, rest |-> <<>>]

\* routes.ts: command.match(/^(!)?generateTrial\s+/)
RouteRegexMatches(command) ==
  LET k == AfterKeyword(command)
  IN  k.ok /\ RunLen(k.rest, WhitespaceChars) >= 1

NoMatch == [matched |-> FALSE, serviceName |-> <<>>, paramsString |-> <<>>]

\* fixed-integration.ts:
\* command.match(/^(!)?generateTrial\s+([a-zA-Z0-9]+)(\s+(.+))?$/)
\* with serviceName = match[2] and paramsString = match[4] || ''
MatchCommand(command) ==
  LET k       == AfterKeyword(command)
      ws      == RunLen(k.rest, WhitespaceChars)
      afterWs == SubSeqFrom(k.rest, ws + 1)
      n       == RunLen(afterWs, AlnumChars)
      name    == SubSeq(afterWs, 1, n)
      rest    == SubSeqFrom(afterWs, n + 1)
      w2      == RunLen(rest, WhitespaceChars)
      tail    == SubSeqFrom(rest, w2 + 1)
      Dots(t) == \A i \in DOMAIN t : t[i] \notin LineTerminators
  IN  IF ~k.ok \/ ws = 0 \/ n = 0 THEN NoMatch
      ELSE IF rest = <<>>
        THEN [matched |-> TRUE, serviceName |-> name, paramsString |-> <<>>]
      ELSE IF w2 = 0 THEN NoMatch
      ELSE IF tail # <<>>
        THEN IF Dots(tail)
             THEN [matched |-> TRUE, serviceName |-> name, paramsString |-> tail]
             ELSE NoMatch
      \* only whitespace follows the name: \s+ gives its last character to .+
      ELSE IF w2 >= 2 /\ rest[w2] \notin LineTerminators
        THEN [matched |-> TRUE, serviceName |-> name, paramsString |-> <<rest[w2]>>]
      ELSE NoMatch

\* A parameter map is a function from keys to values; {} is the empty one.
EmptyMap == <<>>

MapSet(m, key, value) ==
  [x \in (DOMAIN m) \cup {key} |-> IF x = key THEN value ELSE m[x]]

\* JSON.parse on the fragment the commands of this model use: an object
\* with no member, or with one member whose key is a quoted alphanumeric
\* word and whose value is an unsigned integer literal.  Anything else
\* inside the braces is malformed and throws.
JsonParse(s) ==
  LET t     == Trim(s)
      inner == Trim(SubSeq(t, 2, Len(t) - 1))
      klen  == RunLen(SubSeqFrom(inner, 2), AlnumChars)
      key   == SubSeq(inner, 2, klen + 1)
      after == Trim(SubSeqFrom(inner, klen + 3))
      value == Trim(SubSeqFrom(after, 2))
  IN  IF ~(StartsWith(t, <<"{">>) /\ EndsWith(t, <<"}">>) /\ Len(t) >= 2)
        THEN [ok |-> FALSE, value |-> EmptyMap]
      ELSE IF inner = <<>> THEN [ok |-> TRUE, value |-> EmptyMap]
      ELSE IF /\ StartsWith(inner, <<"\"">>)
              /\ klen >= 1
              /\ Len(inner) >= klen + 2
              /\ inner[klen + 2] = "\""
              /\ StartsWith(after, <<":">>)
              /\ value # <<>>
              /\ RunLen(value, DigitChars) = Len(value)
              /\ (Len(value) = 1 \/ value[1] # "0")
        THEN [ok |-> TRUE, value |-> MapSet(EmptyMap, key, value)]
      ELSE [ok |-> FALSE, value |-> EmptyMap]

\* paramsString.split(' ').forEach(param => { [key, value] = param.split('=') ... })
RECURSIVE AssignPairs(_, _)
AssignPairs(params, acc) ==
  IF params = <<>> THEN acc
  ELSE LET kv    == Split(Head(params), "=")
           key   == kv[1]
           value == IF Len(kv) >= 2 THEN kv[2] ELSE <<>>
       IN  AssignPairs(Tail(params),
                       IF key # <<>> /\ value # <<>> THEN MapSet(acc, key, value) ELSE acc)

\* the parameter block read as key=value pairs whatever it looks like
ParseParameters_pairsOnly(paramsString) ==
  IF paramsString = <<>> THEN EmptyMap
  ELSE AssignPairs(Split(paramsString, " "), EmptyMap)

\* fixed-integration.ts: the parameter block; a JSON.parse that throws is
\* caught and leaves parameters = {}
ParseParameters(paramsString) ==
  IF paramsString = <<>> THEN EmptyMap
  ELSE IF StartsWith(Trim(paramsString), <<"{">>) /\ EndsWith(Trim(paramsString), <<"}">>)
    THEN JsonParse(paramsString).value
  ELSE AssignPairs(Split(paramsString, " "), EmptyMap)

\* the commands users send
Cmd_generate == Str_generateTrial \o <<" ", "n", "f">>

Cmd_doStuff == <<"d","o","S","t","u","f","f">>

Cmd_badName == Str_generateTrial \o <<" ", "n", "-", "f">>

\* a parameter block wrapped in {} that is not JSON
Cmd_badJson == Str_generateTrial \o <<" ", "n", "f", " ", "{", "x", "=", "1", "}">>

\* the commands that carry no parameter block
BareCommands == {Cmd_generate, Cmd_doStuff, Cmd_badName}

Commands == BareCommands \cup {Cmd_badJson}

\* ------------------------------------------------------- generation pipeline
Stages == <<"profile", "email", "phone", "virtual_card", "subscription">>

TrialDays == 30

NoResult == [success |-> FALSE, trialType |-> "none", data |-> [null |-> TRUE],
             message |-> <<>>]

NullData == [null |-> TRUE]

\* ProfileAgent.execute
ProfileAgent_execute(serviceName, ok) ==
  IF ok
  THEN [success |-> TRUE, trialType |-> "profile",
        data |-> [firstName |-> "John", lastName |-> "Doe", username |-> "johndoe",
                  age |-> 30, occupation |-> "Software Developer"],
        message |-> <<"Generated profile for", serviceName>>]
  ELSE [success |-> FALSE, trialType |-> "profile", data |-> NullData,
        message |-> <<"Failed to generate profile", serviceName>>]

\* EmailAgent.execute
EmailAgent_execute(serviceName, ok) ==
  IF ok
  THEN [success |-> TRUE, trialType |-> "email",
        data |-> [email |-> "user@tempmail.org", accessKey |-> "key", expiresIn |-> "10m"],
        message |-> <<"Generated email for", serviceName>>]
  ELSE [success |-> FALSE, trialType |-> "email", data |-> NullData,
        message |-> <<"Failed to generate email", serviceName>>]

\* PhoneNumberAgent.execute
PhoneNumberAgent_execute(serviceName, ok) ==
  IF ok
  THEN [success |-> TRUE, trialType |-> "phone",
        data |-> [phoneNumber |-> "+10000000000", verificationCode |-> "0000",
                  expiresIn |-> "24h"],
        message |-> <<"Generated phone number for", serviceName>>]
  ELSE [success |-> FALSE, trialType |-> "phone", data |-> NullData,
        message |-> <<"Failed to generate phone number", serviceName>>]

\* the card numbers the generator draws: '4' followed by fifteen digits
CardNumbers == { <<4,9,9,9, 8,8,8,8, 7,7,7,7, 0,0,4,2>> }

\* VirtualCardAgent.execute
VirtualCardAgent_execute(serviceName, cardNumber, ok) ==
  IF ok
  THEN [success |-> TRUE, trialType |-> "virtual_card",
        data |-> [cardNumber |-> cardNumber, expiryMonth |-> 12, expiryYear |-> 1,
                  cvv |-> <<1, 2, 3>>, currency |-> "USD"],
        message |-> <<"Generated virtual card for", serviceName>>]
  ELSE [success |-> FALSE, trialType |-> "virtual_card", data |-> NullData,
        message |-> <<"Failed to generate virtual card", serviceName>>]

\* ProxyAgent.execute: reading profile.username of a null profile throws
\* inside the try and is reported as a failure
ProxyAgent_execute(serviceName, profile, email, card, t, ok) ==
  IF ok /\ profile # NullData
  THEN [success |-> TRUE, trialType |-> "subscription",
        data |-> [service |-> serviceName, signupTime |-> t,
                  accountDetails |-> [username |-> profile.username,
                                      email |-> IF email = NullData
                                                THEN "no-email-provided"
                                                ELSE email.email,
                                      hasPaymentMethod |-> card # NullData,
                                      membershipLevel |-> "trial"],
                  trialEndDate |-> [from |-> t, days |-> TrialDays]],
        message |-> <<"Successfully signed up for trial", serviceName>>]
  ELSE [success |-> FALSE, trialType |-> "subscription", data |-> NullData,
        message |-> <<"Failed to sign up for trial", serviceName>>]

\* cardNumber.slice(-4)
Last4(cardNumber) == SubSeq(cardNumber, Len(cardNumber) - 3, Len(cardNumber))

\* the results of the five agents, each as its execute reports it when it
\* is called: agents[stage] tells whether that stage succeeds, t is the clock
StageResults(serviceName, agents, cardNumber, t) ==
  LET profileResult == ProfileAgent_execute(serviceName, agents["profile"])
      emailResult   == EmailAgent_execute(serviceName, agents["email"])
      cardResult    == VirtualCardAgent_execute(serviceName, cardNumber,
                                                agents["virtual_card"])
  IN  [profile |-> profileResult,
       email |-> emailResult,
       phone |-> PhoneNumberAgent_execute(serviceName, agents["phone"]),
       virtual_card |-> cardResult,
       subscription |-> ProxyAgent_execute(serviceName, profileResult.data,
                                           emailResult.data, cardResult.data, t,
                                           agents["subscription"])]

\* the log of the first n stage calls and what each reported
StageLog(res, n) == [i \in 1..n |-> [stage |-> Stages[i], success |-> res[Stages[i]].success]]

\* an aggregate that passes the card stage's data on as the payment method
Aggregate_wholeCard(serviceName, res) ==
  [success |-> TRUE, trialType |-> "subscription",
   data |-> [service |-> res.subscription.data.service,
             signupTime |-> res.subscription.data.signupTime,
             accountDetails |-> res.subscription.data.accountDetails,
             trialEndDate |-> res.subscription.data.trialEndDate,
             profile |-> res.profile.data,
             email |-> res.email.data,
             phone |-> res.phone.data,
             paymentMethod |->
               [type |-> "Virtual Card",
                last4 |-> Last4(res.virtual_card.data.cardNumber),
                expiryMonth |-> res.virtual_card.data.expiryMonth,
                expiryYear |-> res.virtual_card.data.expiryYear,
                cardNumber |-> res.virtual_card.data.cardNumber,
                cvv |-> res.virtual_card.data.cvv]],
   message |-> <<"Successfully generated trial for", serviceName>>]

\* generateTrial's aggregate of a run in which every stage succeeded
Aggregate(serviceName, res) ==
  [success |-> TRUE, trialType |-> "subscription",
   data |-> [service |-> res.subscription.data.service,
             signupTime |-> res.subscription.data.signupTime,
             accountDetails |-> res.subscription.data.accountDetails,
             trialEndDate |-> res.subscription.data.trialEndDate,
             profile |-> res.profile.data,
             email |-> res.email.data,
             phone |-> res.phone.data,
             paymentMethod |->
               [type |-> "Virtual Card",
                last4 |-> Last4(res.virtual_card.data.cardNumber),
                expiryMonth |-> res.virtual_card.data.expiryMonth,
                expiryYear |-> res.virtual_card.data.expiryYear]],
   message |-> <<"Successfully generated trial for", serviceName>>]

\* generateTrial without the check of the phone stage's result
generateTrial_noPhoneCheck(serviceName, agents, cardNumber, t) ==
  LET res == StageResults(serviceName, agents, cardNumber, t)
  IN  IF ~res.profile.success THEN [result |-> res.profile, calls |-> StageLog(res, 1)]
      ELSE IF ~res.email.success THEN [result |-> res.email, calls |-> StageLog(res, 2)]
      ELSE IF ~res.virtual_card.success
        THEN [result |-> res.virtual_card, calls |-> StageLog(res, 4)]
      ELSE IF ~res.subscription.success
        THEN [result |-> res.subscription, calls |-> StageLog(res, 5)]
      ELSE [result |-> Aggregate(serviceName, res), calls |-> StageLog(res, 5)]

\* TrialOrchestrator.generateTrial: the TrialResult together with the log of
\* the stages it called
generateTrial(serviceName, agents, cardNumber, t) ==
  LET res == StageResults(serviceName, agents, cardNumber, t)
  IN  IF ~res.profile.success THEN [result |-> res.profile, calls |-> StageLog(res, 1)]
      ELSE IF ~res.email.success THEN [result |-> res.email, calls |-> StageLog(res, 2)]
      ELSE IF ~res.phone.success THEN [result |-> res.phone, calls |-> StageLog(res, 3)]
      ELSE IF ~res.virtual_card.success
        THEN [result |-> res.virtual_card, calls |-> StageLog(res, 4)]
      ELSE IF ~res.subscription.success
        THEN [result |-> res.subscription, calls |-> StageLog(res, 5)]
      ELSE [result |-> Aggregate(serviceName, res), calls |-> StageLog(res, 5)]

\* formatTrialDetailsAsMarkdown: the values the template renders, in order
formatTrialDetailsAsMarkdown(serviceName, data) ==
  << <<"title", serviceName>>,
     <<"Username", data.accountDetails.username>>,
     <<"Email", data.accountDetails.email>>,
     <<"Membership Level", data.accountDetails.membershipLevel>>,
     <<"Name", data.profile.firstName, data.profile.lastName>>,
     <<"Age", data.profile.age>>,
     <<"Occupation", data.profile.occupation>>,
     <<"Email Address", data.email.email>>,
     <<"Email Access Key", data.email.accessKey>>,
     <<"Email Expires", data.email.expiresIn>>,
     <<"Phone Number", data.phone.phoneNumber>>,
     <<"Verification Code", data.phone.verificationCode>>,
     <<"Phone Expires", data.phone.expiresIn>>,
     <<"Payment Type", data.paymentMethod.type>>,
     <<"Card Last 4", data.paymentMethod.last4>>,
     <<"Expiry", data.paymentMethod.expiryMonth, data.paymentMethod.expiryYear>>,
     <<"Signup Time", data.signupTime>>,
     <<"Trial End Date", data.trialEndDate>> >>

\* -------------------------------------------------------------------- store
\* a nullable column that holds no value (null is falsy, like 0)
Null == 0

\* payment proofs: a hex string is kept as its prefix, its number of digits
\* and whether all of them are hexadecimal
WalletDigits == 40

TxDigits == 64

GoodWallet == [prefix |-> "0x", digits |-> WalletDigits, hex |-> TRUE]

ShortWallet == [prefix |-> "0x", digits |-> WalletDigits - 1, hex |-> TRUE]

GoodTx == [prefix |-> "0x", digits |-> TxDigits, hex |-> TRUE, tag |-> "tx1"]

RenewTx == [prefix |-> "0x", digits |-> TxDigits, hex |-> TRUE, tag |-> "tx2"]

BadTx == [prefix |-> "0x", digits |-> TxDigits, hex |-> FALSE, tag |-> "tx3"]

NoTx == [prefix |-> "", digits |-> 0, hex |-> FALSE, tag |-> "none"]

\* the proofs sent with a purchase
Proofs ==
  { [walletAddress |-> GoodWallet,  transactionId |-> GoodTx],
    [walletAddress |-> ShortWallet, transactionId |-> GoodTx],
    [walletAddress |-> GoodWallet,  transactionId |-> BadTx] }

\* the proofs sent with a renewal
RenewProofs ==
  { [walletAddress |-> GoodWallet,  transactionId |-> RenewTx],
    [walletAddress |-> GoodWallet,  transactionId |-> BadTx] }

NoProof == [walletAddress |-> [prefix |-> "", digits |-> 0, hex |-> FALSE],
            transactionId |-> NoTx]

\* PaymentService.isValidWalletAddress: /^0x[a-fA-F0-9]{40}$/
isValidWalletAddress(address) ==
  address.prefix = "0x" /\ address.hex /\ address.digits = WalletDigits

\* PaymentService.isValidTransactionId: /^0x[a-fA-F0-9]{64}$/
isValidTransactionId(txId) ==
  txId.prefix = "0x" /\ txId.hex /\ txId.digits = TxDigits

\* a verification that looks at the wallet address only
verifyTransaction_walletOnly(paymentDetails) ==
  IF ~isValidWalletAddress(paymentDetails.walletAddress)
    THEN [success |-> FALSE, message |-> "Invalid wallet address format"]
  ELSE [success |-> TRUE, message |-> "Transaction verified successfully"]

\* PaymentService.verifyTransaction
verifyTransaction(paymentDetails) ==
  IF ~isValidWalletAddress(paymentDetails.walletAddress)
    THEN [success |-> FALSE, message |-> "Invalid wallet address format"]
  ELSE IF ~isValidTransactionId(paymentDetails.transactionId)
    THEN [success |-> FALSE, message |-> "Invalid transaction ID format"]
  ELSE [success |-> TRUE, message |-> "Transaction verified successfully"]

\* a subscription created with the basic limit whatever its tier
createUserPackage_flatLimit(id, insertUserPackage) ==
  LET pkg == getPackage(insertUserPackage.packageId)
      isSubscription == pkg.id # 0 /\ NameIncludes(pkg.name, "Monthly")
  IN  [id |-> id,
       userId |-> insertUserPackage.userId,
       packageId |-> insertUserPackage.packageId,
       purchasedAt |-> insertUserPackage.purchasedAt,
       trialsRemaining |-> insertUserPackage.trialsRemaining,
       isActive |-> insertUserPackage.isActive,
       transactionId |-> insertUserPackage.transactionId,
       isSubscription |-> isSubscription,
       renewalDate |-> IF isSubscription THEN AddMonth(insertUserPackage.purchasedAt)
                       ELSE Null,
       trialLimitPerCycle |-> IF isSubscription THEN TrialLimitBasic ELSE Null,
       trialsUsedInCycle |-> 0]

\* DatabaseStorage.createUserPackage: the row inserted with the next id
createUserPackage(id, insertUserPackage) ==
  LET pkg == getPackage(insertUserPackage.packageId)
      isSubscription == pkg.id # 0 /\ NameIncludes(pkg.name, "Monthly")
  IN  IF isSubscription
      THEN [id |-> id,
            userId |-> insertUserPackage.userId,
            packageId |-> insertUserPackage.packageId,
            purchasedAt |-> insertUserPackage.purchasedAt,
            trialsRemaining |-> insertUserPackage.trialsRemaining,
            isActive |-> insertUserPackage.isActive,
            transactionId |-> insertUserPackage.transactionId,
            isSubscription |-> TRUE,
            renewalDate |-> AddMonth(insertUserPackage.purchasedAt),
            trialLimitPerCycle |-> IF NameIncludes(pkg.name, "Premium")
                                   THEN TrialLimitPremium ELSE TrialLimitBasic,
            trialsUsedInCycle |-> 0]
      ELSE [id |-> id,
            userId |-> insertUserPackage.userId,
            packageId |-> insertUserPackage.packageId,
            purchasedAt |-> insertUserPackage.purchasedAt,
            trialsRemaining |-> insertUserPackage.trialsRemaining,
            isActive |-> insertUserPackage.isActive,
            transactionId |-> insertUserPackage.transactionId,
            isSubscription |-> FALSE,
            renewalDate |-> Null,
            trialLimitPerCycle |-> Null,
            trialsUsedInCycle |-> 0]

\* undefined, as getUserPackage returns it
NoUserPackage ==
  [id |-> 0, packageId |-> 0, packageName |-> <<>>, purchasedAt |-> 0,
   trialsRemaining |-> 0, isActive |-> FALSE, isSubscription |-> FALSE,
   renewalDate |-> Null, trialLimitPerCycle |-> Null, trialsUsedInCycle |-> 0]

\* the UserPackageResponse built from a row
UserPackageResponse(row) ==
  [id |-> row.id, packageId |-> row.packageId,
   packageName |-> getPackage(row.packageId).name,
   purchasedAt |-> row.purchasedAt, trialsRemaining |-> row.trialsRemaining,
   isActive |-> row.isActive, isSubscription |-> row.isSubscription,
   renewalDate |-> row.renewalDate, trialLimitPerCycle |-> row.trialLimitPerCycle,
   trialsUsedInCycle |-> row.trialsUsedInCycle]

\* DatabaseStorage.getUserPackage: the select has no ORDER BY, so when
\* several rows of the user are active any of them can come first
getUserPackage(userId) ==
  LET active == {i \in DOMAIN userPackages :
                   userPackages[i].userId = userId /\ userPackages[i].isActive}
  IN  IF active = {} THEN {NoUserPackage}
      ELSE {UserPackageResponse(userPackages[i]) : i \in active}

\* DatabaseStorage.updateUserPackageTrials
updateUserPackageTrials(id, trialsRemaining) ==
  [userPackages EXCEPT ![id].trialsRemaining = trialsRemaining]

\* DatabaseStorage.resetTrialsUsedInCycle: the row its update leaves at time t
ResetRow(row, t) == [row EXCEPT !.trialsUsedInCycle = 0, !.renewalDate = AddMonth(t)]

\* DatabaseStorage.resetTrialsUsedInCycle
resetTrialsUsedInCycle(id) == [userPackages EXCEPT ![id] = ResetRow(@, now)]

\* PaymentService.resetMonthlySubscriptionUsage on the row getUserPackage
\* returned: the reset, then renewalDate = addMonths(the renewal date read
\* before the reset, 1) and isActive = true
resetMonthlySubscriptionUsage(row, t) ==
  IF ~row.isSubscription THEN row
  ELSE [ResetRow(row, t) EXCEPT
          !.renewalDate = AddMonth(IF row.renewalDate # Null THEN row.renewalDate ELSE t),
          !.isActive = TRUE]

\* DatabaseStorage.getCommandsByUserId: the rows of the user ordered by
\* executedAt descending; rows of equal executedAt come in either scan
\* order (idAscending tells which)
RECURSIVE OrderByExecutedAtDesc(_, _)
OrderByExecutedAtDesc(rows, idAscending) ==
  IF rows = {} THEN <<>>
  ELSE LET first == CHOOSE x \in rows :
                      \A y \in rows :
                        \/ x.executedAt > y.executedAt
                        \/ /\ x.executedAt = y.executedAt
                           /\ IF idAscending THEN x.id <= y.id ELSE x.id >= y.id
       IN  <<first>> \o OrderByExecutedAtDesc(rows \ {first}, idAscending)

\* the same select ordered by executedAt ascending
getCommandsByUserId_oldestFirst(userId, idAscending) ==
  LET h == OrderByExecutedAtDesc({commandExecutions[i] : i \in
                                    {j \in DOMAIN commandExecutions :
                                       commandExecutions[j].userId = userId}},
                                 idAscending)
  IN  [i \in 1..Len(h) |-> h[Len(h) + 1 - i]]

getCommandsByUserId(userId, idAscending) ==
  OrderByExecutedAtDesc({commandExecutions[i] : i \in
                           {j \in DOMAIN commandExecutions :
                              commandExecutions[j].userId = userId}},
                        idAscending)

\* an update of isActive without its where clause
deactivateUserPackages_everyUser(userId) ==
  [i \in DOMAIN userPackages |-> [userPackages[i] EXCEPT !.isActive = FALSE]]

\* routes.ts: db.update(userPackages).set({ isActive: false })
\*              .where(eq(userPackages.userId, req.user.id))
deactivateUserPackages(userId) ==
  [i \in DOMAIN userPackages |->
     IF userPackages[i].userId = userId
     THEN [userPackages[i] EXCEPT !.isActive = FALSE]
     ELSE userPackages[i]]

\* DatabaseStorage.updateUserPackageTransaction
updateUserPackageTransaction(id, transactionId) ==
  [userPackages EXCEPT ![id].transactionId = transactionId]

\* an insert that overwrites the row the user already has for the command
executeCommand_upsert(insertCommand) ==
  LET same == {i \in DOMAIN commandExecutions :
                 /\ commandExecutions[i].userId = insertCommand.userId
                 /\ commandExecutions[i].command = insertCommand.command}
      row(id) == [id |-> id,
                  userId |-> insertCommand.userId,
                  command |-> insertCommand.command,
                  serviceName |-> insertCommand.serviceName,
                  status |-> insertCommand.status,
                  message |-> insertCommand.message,
                  executedAt |-> insertCommand.executedAt]
  IN  IF same = {} THEN Append(commandExecutions, row(Len(commandExecutions) + 1))
      ELSE LET i == CHOOSE j \in same : \A k \in same : j <= k
           IN  [commandExecutions EXCEPT ![i] = row(i)]

\* DatabaseStorage.executeCommand: the ledger after the insert
executeCommand(insertCommand) ==
  Append(commandExecutions,
         [id |-> Len(commandExecutions) + 1,
          userId |-> insertCommand.userId,
          command |-> insertCommand.command,
          serviceName |-> insertCommand.serviceName,
          status |-> insertCommand.status,
          message |-> insertCommand.message,
          executedAt |-> insertCommand.executedAt])

NoExecution == [id |-> 0, userId |-> 0, command |-> <<>>, serviceName |-> <<>>,
                status |-> "none", message |-> <<>>, executedAt |-> 0]

\* a note that is formatted but not inserted
createNote_noInsert(insertNote) == notes

\* DatabaseStorage.createNote: the notes after the insert
createNote(insertNote) ==
  Append(notes, [id |-> Len(notes) + 1, userId |-> insertNote.userId,
                 title |-> insertNote.title, content |-> insertNote.content,
                 color |-> insertNote.color, isPinned |-> insertNote.isPinned])

Str_unknown == <<"u","n","k","n","o","w","n">>

\* ----------------------------------------------------------------- requests
\* One record per slot: the handler's position (pc), its inputs and locals,
\* and the response once sent.  rows counts the ledger rows this call has
\* inserted; checkedAt is the clock when its entitlement check ran.
IdleReq ==
  [kind |-> "none", pc |-> "idle", userId |-> 0, command |-> <<>>,
   packageId |-> 0, proof |-> NoProof,
   userPackage |-> NoUserPackage, tcPackage |-> NoUserPackage,
   serviceName |-> <<>>, parameters |-> EmptyMap,
   trialResult |-> NoResult, calls |-> <<>>, execution |-> NoExecution,
   usedRead |-> 0, statusActive |-> FALSE,
   status |-> 0, body |-> [none |-> TRUE], rows |-> 0, checkedAt |-> 0]

Free(r) == reqs[r].pc \in {"idle", "done"}

\* a request is taken by the lowest slot that is free
Accepts(r) == Free(r) /\ \A q \in Slots : q < r => ~Free(q)

Quiescent == \A r \in Slots : Free(r)

\* res.status(code).json(body) of the request in slot r
Respond(r, rec, code, body) ==
  reqs' = [reqs EXCEPT ![r] =
             [IdleReq EXCEPT !.kind = rec.kind, !.pc = "done", !.userId = rec.userId,
                             !.userPackage = rec.userPackage,
                             !.trialResult = rec.trialResult, !.calls = rec.calls,
                             !.execution = rec.execution, !.rows = rec.rows,
                             !.checkedAt = rec.checkedAt,
                             !.status = code, !.body = body]]

Goto(r, rec, pc) == reqs' = [reqs EXCEPT ![r] = [rec EXCEPT !.pc = pc]]

\* ---- POST /api/commands/execute
Msg_needPackage == <<"You need to purchase a package to execute commands">>

Msg_cycleLimit == <<"You've reached your limit of trials for this billing cycle.">>

Msg_allUsed == <<"You've used all your available trials. Please purchase a new package.">>

Msg_unknownCommand == <<"Unknown command. Available commands: !generateTrial [serviceName]">>

Msg_invalidFormat == <<"Invalid command format. Use: !generateTrial [serviceName]">>

Msg_needActive == <<"You need an active package to generate trials">>

Msg_noTrials == <<"You have no trials remaining. Please upgrade your package.">>

\* the check without the exemption of the unlimited sentinel
RouteLimitReached_noSentinel(userPackage) ==
  IF userPackage.isSubscription
  THEN userPackage.trialsUsedInCycle >= userPackage.trialLimitPerCycle
  ELSE userPackage.trialsRemaining <= 0

\* routes.ts: the trial-limit check on the package read at the start
RouteLimitReached(userPackage) ==
  IF userPackage.isSubscription
  THEN userPackage.trialsUsedInCycle >= userPackage.trialLimitPerCycle
  ELSE userPackage.trialsRemaining # -1 /\ userPackage.trialsRemaining <= 0

\* the write-back without the decrement
RouteSettledTrials_stale(userPackage) == userPackage.trialsRemaining

\* routes.ts: the value written back for a one-shot package
RouteSettledTrials(userPackage) == userPackage.trialsRemaining - 1

\* executeTrialCommand without its own check of the remaining trials
NoTrialsRemaining_unchecked(userPackage) == FALSE

\* fixed-integration.ts: if (userPackage.trialsRemaining === 0)
NoTrialsRemaining(userPackage) == userPackage.trialsRemaining = 0

\* fixed-integration.ts: const isUnlimited = userPackage.trialsRemaining === -1
isUnlimited(userPackage) == userPackage.trialsRemaining = -1

\* fixed-integration.ts: the value written back after a success
SettledTrials(userPackage) == userPackage.trialsRemaining - 1

\* every pipeline outcome ledgered as a success
ExecutionStatus_always(trialResult) == "success"

\* fixed-integration.ts: status: trialResult.success ? "success" : "error"
ExecutionStatus(trialResult) == IF trialResult.success THEN "success" ELSE "error"

\* routes.ts, after executeTrialCommand has returned: the settlement the route
\* goes on to for the package it read at the start, if any
AfterTrialCommand(rec) ==
  IF rec.execution.status = "success"
  THEN IF rec.userPackage.isSubscription THEN "increment"
       ELSE IF rec.userPackage.trialsRemaining # -1 THEN "settle"
       ELSE "respond"
  ELSE "respond"

\* res.json(result): the execution and, after a pipeline run, its trial data
CommandResult(rec) ==
  IF rec.calls = <<>> THEN rec.execution
  ELSE [execution |-> rec.execution,
        trialData |-> IF rec.trialResult.success THEN rec.trialResult.data ELSE NullData]

ReceiveCommand(r, u, c) ==
  /\ Accepts(r)
  /\ started' = started + 1
  /\ reqs' = [reqs EXCEPT ![r] =
                [IdleReq EXCEPT !.kind = "command", !.pc = "authorize",
                                !.userId = u, !.command = c]]
  /\ UNCHANGED <<userPackages, commandExecutions, notes, now, successes>>

\* the read of the user's package and the limit check
CmdAuthorize(r) ==
  /\ reqs[r].pc = "authorize"
  /\ \E up \in getUserPackage(reqs[r].userId) :
       LET rec == [reqs[r] EXCEPT !.userPackage = up, !.checkedAt = now]
       IN  IF up.id = 0
             THEN Respond(r, rec, 403, [message |-> Msg_needPackage])
           ELSE IF RouteLimitReached(up)
             THEN Respond(r, rec, 403,
                          [message |-> IF up.isSubscription THEN Msg_cycleLimit
                                       ELSE Msg_allUsed])
           ELSE Goto(r, rec, "dispatch")
  /\ UNCHANGED <<userPackages, commandExecutions, notes, now, started, successes>>

\* the row a call inserts into the ledger
LedgerRow(rec, serviceName, status, message) ==
  [userId |-> rec.userId, command |-> rec.command, serviceName |-> serviceName,
   status |-> status, message |-> message, executedAt |-> now]

\* the dispatch on the command text: an unknown command is ledgered by the
\* route, an unparseable one by executeTrialCommand, and a parsed one makes
\* executeTrialCommand read the user's package again
CmdDispatch(r) ==
  /\ reqs[r].pc = "dispatch"
  /\ LET rec == reqs[r]
         m   == MatchCommand(rec.command)
     IN  IF ~RouteRegexMatches(rec.command)
         THEN LET ledger == executeCommand(LedgerRow(rec, Str_unknown, "error",
                                                     Msg_unknownCommand))
              IN  /\ commandExecutions' = ledger
                  /\ Respond(r, [rec EXCEPT !.rows = @ + 1,
                                            !.execution = ledger[Len(ledger)]],
                             400, ledger[Len(ledger)])
         ELSE IF ~m.matched
         THEN LET ledger == executeCommand(LedgerRow(rec, Str_unknown, "error",
                                                     Msg_invalidFormat))
              IN  /\ commandExecutions' = ledger
                  /\ Respond(r, [rec EXCEPT !.rows = @ + 1,
                                            !.execution = ledger[Len(ledger)]],
                             200, ledger[Len(ledger)])
         ELSE /\ \E up \in getUserPackage(rec.userId) :
                   Goto(r, [rec EXCEPT !.serviceName = m.serviceName,
                                       !.parameters = ParseParameters(m.paramsString),
                                       !.tcPackage = up],
                        IF up.id = 0 \/ NoTrialsRemaining(up) THEN "record"
                        ELSE "generate")
              /\ UNCHANGED commandExecutions
  /\ UNCHANGED <<userPackages, notes, now, started, successes>>

\* trialOrchestrator.generateTrial: the stages touch no table
CmdGenerate(r) ==
  /\ reqs[r].pc = "generate"
  /\ \E agents \in [{Stages[i] : i \in DOMAIN Stages} -> BOOLEAN],
        cardNumber \in CardNumbers :
       LET g == generateTrial(reqs[r].serviceName, agents, cardNumber, now)
       IN  Goto(r, [reqs[r] EXCEPT !.trialResult = g.result, !.calls = g.calls],
                "record")
  /\ UNCHANGED <<userPackages, commandExecutions, notes, now, started, successes>>

\* executeTrialCommand's insert into the ledger: the rejection of a user
\* without package or without trials, or the outcome of the pipeline
CmdRecord(r) ==
  /\ reqs[r].pc = "record"
  /\ LET rec    == reqs[r]
         up     == rec.tcPackage
         result == rec.trialResult
         ran    == rec.calls # <<>>
         row    == IF ran
                     THEN LedgerRow(rec, rec.serviceName, ExecutionStatus(result),
                                    result.message)
                   ELSE IF up.id = 0
                     THEN LedgerRow(rec, rec.serviceName, "error", Msg_needActive)
                   ELSE LedgerRow(rec, rec.serviceName, "error", Msg_noTrials)
         ledger == executeCommand(row)
         rec2   == [rec EXCEPT !.rows = @ + 1, !.execution = ledger[Len(ledger)]]
     IN  /\ commandExecutions' = ledger
         /\ successes' = IF row.status = "success"
                         THEN [successes EXCEPT ![up.id] = @ + 1] ELSE successes
         /\ IF ran /\ result.success /\ ~isUnlimited(up) THEN Goto(r, rec2, "update")
            ELSE IF ran /\ result.success THEN Goto(r, rec2, "note")
            ELSE IF AfterTrialCommand(rec2) = "respond"
              THEN Respond(r, rec2, 200, CommandResult(rec2))
            ELSE Goto(r, rec2, AfterTrialCommand(rec2))
  /\ UNCHANGED <<userPackages, notes, now, started>>

\* executeTrialCommand's decrement of the package it read
CmdUpdateTrials(r) ==
  /\ reqs[r].pc = "update"
  /\ userPackages' = updateUserPackageTrials(reqs[r].tcPackage.id,
                                             SettledTrials(reqs[r].tcPackage))
  /\ Goto(r, reqs[r], "note")
  /\ UNCHANGED <<commandExecutions, notes, now, started, successes>>

\* the note of a successful trial; executeTrialCommand then returns and the
\* route chooses the settlement from the package it read at the start
CmdCreateNote(r) ==
  /\ reqs[r].pc = "note"
  /\ LET rec == reqs[r]
     IN  /\ notes' = createNote([userId |-> rec.userId, title |-> rec.serviceName,
                                 content |-> formatTrialDetailsAsMarkdown(
                                               rec.serviceName, rec.trialResult.data),
                                 color |-> "green", isPinned |-> TRUE])
         /\ IF AfterTrialCommand(rec) = "respond"
            THEN Respond(r, rec, 200, CommandResult(rec))
            ELSE Goto(r, rec, AfterTrialCommand(rec))
  /\ UNCHANGED <<userPackages, commandExecutions, now, started, successes>>

\* ---- executeTrialCommand when the store fails after the ledger insert
Msg_failedToGenerate == <<"Failed to generate trial:", "store unavailable">>

\* the decrement throws: control passes to the catch block
CmdUpdateTrialsFails(r) ==
  /\ reqs[r].pc = "update"
  /\ Goto(r, reqs[r], "catch")
  /\ UNCHANGED <<userPackages, commandExecutions, notes, now, started, successes>>

\* the insert of the note throws: control passes to the catch block
CmdCreateNoteFails(r) ==
  /\ reqs[r].pc = "note"
  /\ Goto(r, reqs[r], "catch")
  /\ UNCHANGED <<userPackages, commandExecutions, notes, now, started, successes>>

\* the catch block ledgers an error row and returns it; the route sees
\* status error, settles nothing and sends the row
CmdCatch(r) ==
  /\ reqs[r].pc = "catch"
  /\ LET rec    == reqs[r]
         ledger == executeCommand(LedgerRow(rec, rec.serviceName, "error",
                                            Msg_failedToGenerate))
         rec2   == [rec EXCEPT !.rows = @ + 1, !.execution = ledger[Len(ledger)]]
     IN  /\ commandExecutions' = ledger
         /\ Respond(r, rec2, 200, rec2.execution)
  /\ UNCHANGED <<userPackages, notes, now, started, successes>>

\* ---- the profile stage when an API key is configured: generateTrial
\* awaits model.invoke, a call to the model provider
CmdInvokeModel(r) ==
  /\ reqs[r].pc = "generate"
  /\ Goto(r, reqs[r], "invoking")
  /\ UNCHANGED <<userPackages, commandExecutions, notes, now, started, successes>>

\* the provider answers (or the call throws) and the pipeline runs on
CmdModelResponds(r) ==
  /\ reqs[r].pc = "invoking"
  /\ \E agents \in [{Stages[i] : i \in DOMAIN Stages} -> BOOLEAN],
        cardNumber \in CardNumbers :
       LET g == generateTrial(reqs[r].serviceName, agents, cardNumber, now)
       IN  Goto(r, [reqs[r] EXCEPT !.trialResult = g.result, !.calls = g.calls],
                "record")
  /\ UNCHANGED <<userPackages, commandExecutions, notes, now, started, successes>>

\* incrementTrialsUsedInCycle, first half: the select of the row
CmdIncrementRead(r) ==
  /\ reqs[r].pc = "increment"
  /\ LET rec == reqs[r]
         row == userPackages[rec.userPackage.id]
     IN  IF row.isSubscription
         THEN Goto(r, [rec EXCEPT !.usedRead = row.trialsUsedInCycle], "incremented")
         ELSE Respond(r, rec, 200, CommandResult(rec))
  /\ UNCHANGED <<userPackages, commandExecutions, notes, now, started, successes>>

\* incrementTrialsUsedInCycle, second half: the update with the value read + 1
CmdIncrementWrite(r) ==
  /\ reqs[r].pc = "incremented"
  /\ LET rec == reqs[r]
     IN  /\ userPackages' = [userPackages EXCEPT
                               ![rec.userPackage.id].trialsUsedInCycle = rec.usedRead + 1]
         /\ Respond(r, rec, 200, CommandResult(rec))
  /\ UNCHANGED <<commandExecutions, notes, now, started, successes>>

\* the route's decrement of the package it read at the start
CmdSettleTrials(r) ==
  /\ reqs[r].pc = "settle"
  /\ LET rec == reqs[r]
     IN  /\ userPackages' = updateUserPackageTrials(rec.userPackage.id,
                                                    RouteSettledTrials(rec.userPackage))
         /\ Respond(r, rec, 200, CommandResult(rec))
  /\ UNCHANGED <<commandExecutions, notes, now, started, successes>>

\* ---- GET /api/user/package
ReceiveGetPackage(r, u) ==
  /\ Accepts(r)
  /\ started' = started + 1
  /\ reqs' = [reqs EXCEPT ![r] =
                [IdleReq EXCEPT !.kind = "getPackage", !.pc = "read", !.userId = u]]
  /\ UNCHANGED <<userPackages, commandExecutions, notes, now, successes>>

\* the route's read of the caller's package
GetPackageRead(r) ==
  /\ reqs[r].pc = "read"
  /\ \E up \in getUserPackage(reqs[r].userId) :
       LET rec == [reqs[r] EXCEPT !.userPackage = up]
       IN  IF up.id = 0
             THEN Respond(r, rec, 404, [message |-> <<"No active package found">>])
           ELSE IF up.isSubscription /\ up.renewalDate # Null
             THEN Goto(r, rec, "status")
           ELSE Respond(r, rec, 200, up)
  /\ UNCHANGED <<userPackages, commandExecutions, notes, now, started, successes>>

\* PaymentService.checkSubscriptionStatus: the isActive it reports for the
\* package it reads (a subscription row always carries a renewalDate)
checkSubscriptionStatus(userPackage) ==
  IF userPackage.id = 0 THEN FALSE
  ELSE IF ~userPackage.isSubscription THEN userPackage.isActive
  ELSE userPackage.isActive /\ now < userPackage.renewalDate

GetPackageStatus(r) ==
  /\ reqs[r].pc = "status"
  /\ \E up \in getUserPackage(reqs[r].userId) :
       Goto(r, [reqs[r] EXCEPT !.statusActive = checkSubscriptionStatus(up)], "rollover")
  /\ UNCHANGED <<userPackages, commandExecutions, notes, now, started, successes>>

\* the route acts on the status: it deactivates every package of the user
\* when the subscription is reported inactive, else it resets the cycle when
\* the clock has reached the renewal date of the package it read
GetPackageRollover(r) ==
  /\ reqs[r].pc = "rollover"
  /\ LET rec == reqs[r]
     IN  IF ~rec.statusActive
         THEN /\ userPackages' = deactivateUserPackages(rec.userId)
              /\ Respond(r, rec, 402, [message |-> <<"Subscription has expired">>])
         ELSE IF now >= rec.userPackage.renewalDate
         THEN /\ userPackages' = resetTrialsUsedInCycle(rec.userPackage.id)
              /\ Goto(r, rec, "reread")
         ELSE /\ UNCHANGED userPackages
              /\ Respond(r, rec, 200, rec.userPackage)
  /\ UNCHANGED <<commandExecutions, notes, now, started, successes>>

GetPackageReread(r) ==
  /\ reqs[r].pc = "reread"
  /\ \E up \in getUserPackage(reqs[r].userId) : Respond(r, reqs[r], 200, up)
  /\ UNCHANGED <<userPackages, commandExecutions, notes, now, started, successes>>

\* ---- POST /api/packages/purchase
ReceivePurchase(r, u, packageId, proof) ==
  /\ Accepts(r)
  /\ started' = started + 1
  /\ reqs' = [reqs EXCEPT ![r] =
                [IdleReq EXCEPT !.kind = "purchase", !.pc = "verify", !.userId = u,
                                !.packageId = packageId, !.proof = proof]]
  /\ UNCHANGED <<userPackages, commandExecutions, notes, now, successes>>

\* the catalog lookup, the payment verification and the check for an
\* active package
PurchaseCheck(r) ==
  /\ reqs[r].pc = "verify"
  /\ LET rec == reqs[r]
         pkg == getPackage(rec.packageId)
     IN  IF pkg.id = 0
           THEN Respond(r, rec, 404, [message |-> <<"Package not found">>])
         ELSE IF ~verifyTransaction([walletAddress |-> rec.proof.walletAddress,
                                     transactionId |-> rec.proof.transactionId,
                                     amount |-> pkg.price]).success
           THEN Respond(r, rec, 400, [message |-> <<"Payment verification failed">>])
         ELSE \E up \in getUserPackage(rec.userId) :
                IF up.id # 0
                THEN Respond(r, rec, 400,
                             [message |-> <<"User already has an active package">>])
                ELSE Goto(r, rec, "create")
  /\ UNCHANGED <<userPackages, commandExecutions, notes, now, started, successes>>

PurchaseCreate(r) ==
  /\ reqs[r].pc = "create"
  /\ LET rec == reqs[r]
         pkg == getPackage(rec.packageId)
     IN  /\ userPackages' =
              Append(userPackages,
                     createUserPackage(Len(userPackages) + 1,
                                       [userId |-> rec.userId,
                                        packageId |-> rec.packageId,
                                        purchasedAt |-> now,
                                        trialsRemaining |-> pkg.trialCount,
                                        isActive |-> TRUE,
                                        transactionId |-> rec.proof.transactionId]))
         /\ successes' = Append(successes, 0)
         /\ Goto(r, rec, "created")
  /\ UNCHANGED <<commandExecutions, notes, now, started>>

PurchaseRespond(r) ==
  /\ reqs[r].pc = "created"
  /\ \E up \in getUserPackage(reqs[r].userId) : Respond(r, reqs[r], 201, up)
  /\ UNCHANGED <<userPackages, commandExecutions, notes, now, started, successes>>

\* ---- POST /api/packages/renew
ReceiveRenew(r, u, proof) ==
  /\ Accepts(r)
  /\ started' = started + 1
  /\ reqs' = [reqs EXCEPT ![r] =
                [IdleReq EXCEPT !.kind = "renew", !.pc = "lookup", !.userId = u,
                                !.proof = proof]]
  /\ UNCHANGED <<userPackages, commandExecutions, notes, now, successes>>

RenewCheck(r) ==
  /\ reqs[r].pc = "lookup"
  /\ \E up \in getUserPackage(reqs[r].userId) :
       LET rec == [reqs[r] EXCEPT !.userPackage = up]
           pkg == getPackage(up.packageId)
       IN  IF up.id = 0
             THEN Respond(r, rec, 404, [message |-> <<"No active package found to renew">>])
           ELSE IF ~up.isSubscription
             THEN Respond(r, rec, 400,
                          [message |-> <<"Only subscription packages can be renewed">>])
           ELSE IF pkg.id = 0
             THEN Respond(r, rec, 404, [message |-> <<"Package not found">>])
           ELSE IF ~verifyTransaction([walletAddress |-> rec.proof.walletAddress,
                                       transactionId |-> rec.proof.transactionId,
                                       amount |-> pkg.price]).success
             THEN Respond(r, rec, 400, [message |-> <<"Payment verification failed">>])
           ELSE Goto(r, rec, "reset")
  /\ UNCHANGED <<userPackages, commandExecutions, notes, now, started, successes>>

RenewReset(r) ==
  /\ reqs[r].pc = "reset"
  /\ userPackages' = resetTrialsUsedInCycle(reqs[r].userPackage.id)
  /\ Goto(r, reqs[r], "transaction")
  /\ UNCHANGED <<commandExecutions, notes, now, started, successes>>

RenewTransaction(r) ==
  /\ reqs[r].pc = "transaction"
  /\ userPackages' = updateUserPackageTransaction(reqs[r].userPackage.id,
                                                  reqs[r].proof.transactionId)
  /\ Goto(r, reqs[r], "renewed")
  /\ UNCHANGED <<commandExecutions, notes, now, started, successes>>

RenewRespond(r) ==
  /\ reqs[r].pc = "renewed"
  /\ \E up \in getUserPackage(reqs[r].userId) :
       Respond(r, reqs[r], 200, [success |-> TRUE, package |-> up])
  /\ UNCHANGED <<userPackages, commandExecutions, notes, now, started, successes>>

\* ---- GET /api/commands/history
ReceiveHistory(r, u) ==
  /\ Accepts(r)
  /\ started' = started + 1
  /\ reqs' = [reqs EXCEPT ![r] =
                [IdleReq EXCEPT !.kind = "history", !.pc = "history", !.userId = u]]
  /\ UNCHANGED <<userPackages, commandExecutions, notes, now, successes>>

HistoryRead(r) ==
  /\ reqs[r].pc = "history"
  /\ \E idAscending \in BOOLEAN :
       Respond(r, reqs[r], 200, getCommandsByUserId(reqs[r].userId, idAscending))
  /\ UNCHANGED <<userPackages, commandExecutions, notes, now, started, successes>>

\* ---- the clock
Tick ==
  /\ now < MaxTime
  /\ now' = now + 1
  /\ UNCHANGED <<userPackages, commandExecutions, notes, started, reqs, successes>>

\* ------------------------------------------------------------ initial states
\* The store either is empty or holds what user 1 left in it: one package
\* purchased at time 0 and k successful commands run one after another since
\* (Snapshots lists the package and k).
Snapshots ==
  { <<1, 0>>, <<2, 0>>, <<2, TrialLimitBasic - 1>>, <<4, 0>>, <<5, 0>>, <<5, 2>> }

StoreAfter(packageId, k) ==
  LET pkg == getPackage(packageId)
      row == createUserPackage(1, [userId |-> 1, packageId |-> packageId,
                                   purchasedAt |-> 0, trialsRemaining |-> pkg.trialCount,
                                   isActive |-> TRUE, transactionId |-> GoodTx])
      result == generateTrial(<<"n", "f">>, [st \in {Stages[i] : i \in DOMAIN Stages} |-> TRUE],
                              CHOOSE c \in CardNumbers : TRUE, 0).result
  IN  [userPackages |->
         << IF row.isSubscription THEN [row EXCEPT !.trialsUsedInCycle = k]
            ELSE IF pkg.trialCount = -1 THEN row
            ELSE [row EXCEPT !.trialsRemaining = pkg.trialCount - k] >>,
       commandExecutions |->
         [i \in 1..k |-> [id |-> i, userId |-> 1, command |-> Cmd_generate,
                          serviceName |-> <<"n", "f">>, status |-> "success",
                          message |-> result.message, executedAt |-> 0]],
       notes |->
         [i \in 1..k |-> [id |-> i, userId |-> 1, title |-> <<"n", "f">>,
                          content |-> formatTrialDetailsAsMarkdown(<<"n", "f">>, result.data),
                          color |-> "green", isPinned |-> TRUE]]]

Init ==
  /\ now = 0
  /\ started = 0
  /\ reqs = [r \in Slots |-> IdleReq]
  /\ \/ /\ userPackages = <<>>
        /\ commandExecutions = <<>>
        /\ notes = <<>>
        /\ successes = <<>>
     \/ \E snap \in Snapshots :
          /\ userPackages = StoreAfter(snap[1], snap[2]).userPackages
          /\ commandExecutions = StoreAfter(snap[1], snap[2]).commandExecutions
          /\ notes = StoreAfter(snap[1], snap[2]).notes
          /\ successes = <<snap[2]>>

\* ------------------------------------------------------------ specifications
Receive(u, commands) ==
  \E r \in Slots :
     \/ \E c \in commands : ReceiveCommand(r, u, c)
     \/ ReceiveGetPackage(r, u)
     \/ \E packageId \in PackageIds, proof \in Proofs : ReceivePurchase(r, u, packageId, proof)
     \/ \E proof \in RenewProofs : ReceiveRenew(r, u, proof)
     \/ ReceiveHistory(r, u)

Handle ==
  \E r \in Slots :
     \/ CmdAuthorize(r)
     \/ CmdDispatch(r)
     \/ CmdGenerate(r)
     \/ CmdRecord(r)
     \/ CmdUpdateTrials(r)
     \/ CmdCreateNote(r)
     \/ CmdIncrementRead(r)
     \/ CmdIncrementWrite(r)
     \/ CmdSettleTrials(r)
     \/ GetPackageRead(r)
     \/ GetPackageStatus(r)
     \/ GetPackageRollover(r)
     \/ GetPackageReread(r)
     \/ PurchaseCheck(r)
     \/ PurchaseCreate(r)
     \/ PurchaseRespond(r)
     \/ RenewCheck(r)
     \/ RenewReset(r)
     \/ RenewTransaction(r)
     \/ RenewRespond(r)
     \/ HistoryRead(r)

\* the requests of one user arrive at any time and overlap
Next ==
  \/ started < MaxRequests /\ Receive(1, BareCommands)
  \/ Handle
  \/ Tick

Spec == Init /\ [][Next]_vars

\* the requests of all users are handled one after another
NextSeq ==
  \/ started < MaxRequests /\ Quiescent /\ \E u \in Users : Receive(u, Commands)
  \/ Handle
  \/ Tick

SpecSeq == Init /\ [][NextSeq]_vars

\* the requests of all users are handled one after another, and a write of
\* executeTrialCommand that follows the ledger insert can fail
Faults ==
  \E r \in Slots :
     \/ CmdUpdateTrialsFails(r)
     \/ CmdCreateNoteFails(r)
     \/ CmdCatch(r)

NextFault ==
  \/ started < MaxRequests /\ Quiescent /\ \E u \in Users : Receive(u, Commands)
  \/ Handle
  \/ Faults
  \/ Tick

SpecFault == Init /\ [][NextFault]_vars

\* the steps of a command that the server takes by itself: the event loop
\* runs each of them once the store has answered
HandleCommand ==
  \E r \in Slots :
     \/ CmdAuthorize(r)
     \/ CmdDispatch(r)
     \/ CmdGenerate(r)
     \/ CmdInvokeModel(r)
     \/ CmdRecord(r)
     \/ CmdUpdateTrials(r)
     \/ CmdCreateNote(r)
     \/ CmdIncrementRead(r)
     \/ CmdIncrementWrite(r)
     \/ CmdSettleTrials(r)

\* the commands of one user, one after another, with the profile stage
\* calling the model provider; the provider owes no answer
NextLive ==
  \/ started < MaxRequests /\ Quiescent
       /\ \E r \in Slots, c \in BareCommands : ReceiveCommand(r, 1, c)
  \/ HandleCommand
  \/ \E r \in Slots : CmdModelResponds(r)

SpecLive == Init /\ [][NextLive]_vars /\ WF_vars(HandleCommand)

\* ------------------------------------------------------------------- claims
OneShotFinite(row) == ~row.isSubscription /\ getPackage(row.packageId).trialCount >= 0

Unlimited(up) == ~up.isSubscription /\ up.trialsRemaining = -1

ActiveRows(u) ==
  {i \in DOMAIN userPackages : userPackages[i].userId = u /\ userPackages[i].isActive}

\* a command whose pipeline ran and reported a stage failure
StageFailed(rec) == rec.kind = "command" /\ rec.calls # <<>> /\ ~rec.trialResult.success

\* C1: with commands handled one after another, a one-shot package bought
\* with a finite trialCount V holds trialsRemaining = max(V - N, 0) after N
\* successful commands, and a command that finds it at 0 is rejected with
\* 403 without inserting or settling anything.
C1_SequentialDecrement ==
  /\ \A i \in DOMAIN userPackages :
       (Quiescent /\ OneShotFinite(userPackages[i]))
         => userPackages[i].trialsRemaining
              = Max(getPackage(userPackages[i].packageId).trialCount - successes[i], 0)
  /\ \A r \in Slots :
       (/\ reqs[r].kind = "command"
        /\ reqs[r].userPackage.id # 0
        /\ ~reqs[r].userPackage.isSubscription
        /\ reqs[r].userPackage.trialsRemaining = 0)
         => /\ reqs[r].pc = "done"
            /\ reqs[r].status = 403
            /\ reqs[r].execution.id = 0

\* a credit was used up by a successful command and the next command of the
\* user was rejected
C1_Witness ==
  \E r \in Slots :
    /\ reqs[r].kind = "command" /\ reqs[r].status = 403
    /\ reqs[r].userPackage.id # 0
    /\ OneShotFinite(userPackages[reqs[r].userPackage.id])
    /\ userPackages[reqs[r].userPackage.id].trialsRemaining = 0
    /\ successes[reqs[r].userPackage.id]
         = getPackage(userPackages[reqs[r].userPackage.id].packageId).trialCount
    /\ commandExecutions[Len(commandExecutions)].status = "success"
    /\ started >= 2

\* C2: overlapping commands never yield more success rows than the one-shot
\* package grants: once all have answered, the success rows ledgered for a
\* package bought with V credits number at most V and trialsRemaining is
\* what they leave of V.
C2_NoMoreThanEntitled ==
  \A i \in DOMAIN userPackages :
    (Quiescent /\ OneShotFinite(userPackages[i]))
      => /\ successes[i] <= getPackage(userPackages[i].packageId).trialCount
         /\ userPackages[i].trialsRemaining
              = getPackage(userPackages[i].packageId).trialCount - successes[i]

\* C3: a package created with a finite trialCount >= 0 never has a
\* negative trialsRemaining, under every interleaving.
C3_NeverNegative ==
  \A i \in DOMAIN userPackages :
    getPackage(userPackages[i].packageId).trialCount >= 0
      => userPackages[i].trialsRemaining >= 0

\* two overlapping commands both succeeded against the last credit
C3_Witness ==
  \E r, q \in Slots :
    /\ r # q
    /\ reqs[r].execution.status = "success" /\ reqs[q].execution.status = "success"
    /\ reqs[r].userPackage.id # 0
    /\ reqs[r].userPackage.id = reqs[q].userPackage.id
    /\ reqs[r].userPackage.trialsRemaining = 1
    /\ reqs[q].userPackage.trialsRemaining = 1
    /\ reqs[r].pc = "done" /\ reqs[q].pc = "done"
    /\ userPackages[reqs[r].userPackage.id].trialsRemaining = 0

\* C4: trialsUsedInCycle of a subscription never exceeds trialLimitPerCycle.
C4_WithinCycleLimit ==
  \A i \in DOMAIN userPackages :
    userPackages[i].isSubscription
      => userPackages[i].trialsUsedInCycle <= userPackages[i].trialLimitPerCycle

\* C5: a command execution call that has answered has inserted exactly one
\* ledger row.
C5_OneRowPerCall ==
  \A r \in Slots :
    (reqs[r].kind = "command" /\ reqs[r].pc = "done") => reqs[r].rows = 1

\* C6: no user has more than one active UserPackage.
C6_OneActivePackage ==
  \A u \in Users : Cardinality(ActiveRows(u)) <= 1

\* C7: the cycle-limit check of a command is never evaluated on a
\* subscription whose renewalDate the clock has reached.
C7_RolledOverBeforeCheck ==
  \A r \in Slots :
    (/\ reqs[r].kind = "command"
     /\ reqs[r].userPackage.id # 0
     /\ reqs[r].userPackage.isSubscription)
      => reqs[r].checkedAt < reqs[r].userPackage.renewalDate

\* C8: the stages are called in the order profile, email, phone, card,
\* signup; no stage is called after one that reported failure; the run ends
\* early only on a failure, and its result is then that stage's failure
\* without data.
C8_ShortCircuit ==
  \A r \in Slots :
    LET calls == reqs[r].calls
        n     == Len(calls)
    IN  n > 0 =>
          /\ n <= Len(Stages)
          /\ \A i \in 1..n : calls[i].stage = Stages[i]
          /\ \A i \in 1..(n - 1) : calls[i].success
          /\ ~calls[n].success =>
               /\ ~reqs[r].trialResult.success
               /\ reqs[r].trialResult.trialType = calls[n].stage
               /\ reqs[r].trialResult.data = NullData
          /\ calls[n].success => (n = Len(Stages) /\ reqs[r].trialResult.success)

\* a run stopped by a failure of the phone stage, after two stages had
\* produced data
C8_Witness ==
  \E r \in Slots :
    /\ Len(reqs[r].calls) = 3
    /\ ~reqs[r].calls[3].success
    /\ reqs[r].trialResult.trialType = "phone"

\* C9: no step of a command whose pipeline reports a stage failure changes
\* a package (neither the steps up to the pipeline run nor the ones after
\* it), and the command ends with one ledger row of status error that
\* carries the message of the failing stage.
C9_FailureSettlesNothing ==
  [][\A r \in Slots :
       /\ (/\ reqs'[r] # reqs[r]
           /\ reqs[r].kind = "command"
           /\ reqs[r].pc \in {"authorize", "dispatch", "generate"})
            => userPackages' = userPackages
       /\ (reqs'[r] # reqs[r] /\ StageFailed(reqs'[r]))
         => /\ userPackages' = userPackages
            /\ reqs'[r].pc \in {"record", "done"}
            /\ reqs'[r].pc = "done" =>
                 /\ commandExecutions'
                      = Append(commandExecutions, reqs'[r].execution)
                 /\ reqs'[r].execution.status = "error"
                 /\ reqs'[r].execution.message = reqs[r].trialResult.message
                 /\ reqs'[r].execution.userId = reqs[r].userId]_vars

\* a command answered after a stage failure, with its error row
C9_Witness ==
  \E r \in Slots :
    /\ reqs[r].pc = "done"
    /\ StageFailed(reqs[r])
    /\ reqs[r].execution.status = "error"
    /\ reqs[r].execution.message = reqs[r].trialResult.message
    /\ reqs[r].userPackage.id # 0

\* C10: an unlimited one-shot package keeps trialsRemaining = -1, and a
\* command that reads it is rejected neither by the route nor by
\* executeTrialCommand's check of the remaining trials.
C10_UnlimitedStaysUnlimited ==
  /\ \A i \in DOMAIN userPackages :
       (~userPackages[i].isSubscription
        /\ getPackage(userPackages[i].packageId).trialCount = -1)
         => userPackages[i].trialsRemaining = -1
  /\ \A r \in Slots :
       (reqs[r].kind = "command" /\ reqs[r].userPackage.id # 0
        /\ Unlimited(reqs[r].userPackage))
         => /\ reqs[r].status # 403
            /\ reqs[r].execution.message # Msg_noTrials

\* an unlimited package after a successful and a failed command
C10_Witness ==
  \E i \in DOMAIN userPackages :
    /\ ~userPackages[i].isSubscription
    /\ getPackage(userPackages[i].packageId).trialCount = -1
    /\ userPackages[i].trialsRemaining = -1
    /\ successes[i] = 1
    /\ Len(commandExecutions) = 2
    /\ commandExecutions[2].status = "error"
    /\ Quiescent

\* a subscription of the user that was deactivated, the user holding no
\* active package
Lapsed(u) ==
  /\ ActiveRows(u) = {}
  /\ \E i \in DOMAIN userPackages :
       /\ userPackages[i].userId = u
       /\ userPackages[i].isSubscription
       /\ ~userPackages[i].isActive

\* the fields a cycle rollover is about
SameCycle(a, b) ==
  /\ a.trialsUsedInCycle = b.trialsUsedInCycle
  /\ a.renewalDate = b.renewalDate
  /\ a.isActive = b.isActive

\* a command rejected for want of entitlement, by the route or by
\* executeTrialCommand
Rejected(rec) ==
  \/ rec.userPackage.id = 0
  \/ RouteLimitReached(rec.userPackage)
  \/ rec.execution.message \in {Msg_needActive, Msg_noTrials}

\* C11: a command without the action keyword runs no pipeline stage, no
\* step of it changes a package, and the step that answers it has left
\* exactly one ledger row for it, of status error with a guidance message.
C11_ParseFailureLedgered ==
  [][\A r \in Slots :
       (/\ reqs[r].kind = "command"
        /\ reqs[r].pc \notin {"idle", "done"}
        /\ ~AfterKeyword(reqs[r].command).ok
        /\ reqs'[r] # reqs[r])
         => /\ userPackages' = userPackages
            /\ reqs'[r].calls = <<>>
            /\ reqs'[r].pc = "done" =>
                 /\ reqs'[r].rows = 1
                 /\ reqs'[r].execution.status = "error"
                 /\ reqs'[r].execution.message \in {Msg_unknownCommand, Msg_invalidFormat}
                 /\ commandExecutions'
                      = Append(commandExecutions, reqs'[r].execution)]_vars

\* C12: the step that answers a command rejected for want of entitlement
\* answers 403, no pipeline stage has run for the command, and the step
\* creates no note and changes no package.
C12_RejectedBeforeGeneration ==
  [][\A r \in Slots :
       (/\ reqs'[r] # reqs[r]
        /\ reqs'[r].kind = "command"
        /\ reqs'[r].pc = "done"
        /\ Rejected(reqs'[r]))
         => /\ reqs'[r].status = 403
            /\ reqs'[r].calls = <<>>
            /\ notes' = notes
            /\ userPackages' = userPackages]_vars

\* C13: no step removes a ledger row or changes one: every row of the
\* ledger is the same row, at the same place, after the step.
C13_AppendOnly ==
  [][/\ Len(commandExecutions') >= Len(commandExecutions)
     /\ \A i \in DOMAIN commandExecutions :
          commandExecutions'[i] = commandExecutions[i]]_vars

\* a command was ledgered after earlier rows while the subscription was
\* renewed, and the earlier rows are still there
C13_Witness ==
  \E r, q \in Slots :
    /\ reqs[r].kind = "command" /\ reqs[r].pc = "done"
    /\ reqs[r].execution.id = Len(commandExecutions)
    /\ Len(commandExecutions) >= 3
    /\ commandExecutions[1].status = "success"
    /\ reqs[q].kind = "renew" /\ reqs[q].pc = "done" /\ reqs[q].status = 200

\* C14: the history returned to a user holds each ledger row of that user
\* once and no other row, and no row comes before a row executed later.
C14_HistoryNewestFirst ==
  \A r \in Slots :
    (reqs[r].kind = "history" /\ reqs[r].pc = "done") =>
      LET h    == reqs[r].body
          mine == {commandExecutions[j] : j \in
                     {k \in DOMAIN commandExecutions :
                        commandExecutions[k].userId = reqs[r].userId}}
      IN  /\ {h[i] : i \in DOMAIN h} = mine
          /\ Len(h) = Cardinality(mine)
          /\ \A i, j \in DOMAIN h : i < j => h[i].executedAt >= h[j].executedAt

\* a history of rows executed at different times
C14_Witness ==
  \E r \in Slots :
    /\ reqs[r].kind = "history" /\ reqs[r].pc = "done"
    /\ Len(reqs[r].body) >= 2
    /\ reqs[r].body[1].executedAt > reqs[r].body[Len(reqs[r].body)].executedAt

\* C15: for every active subscription, the rollover applied twice at the
\* same time leaves the trialsUsedInCycle, renewalDate and isActive that
\* one application leaves.
C15_RolloverIdempotent ==
  \A i \in DOMAIN userPackages :
    (userPackages[i].isSubscription /\ userPackages[i].isActive) =>
      /\ SameCycle(ResetRow(ResetRow(userPackages[i], now), now),
                   ResetRow(userPackages[i], now))
      /\ SameCycle(resetMonthlySubscriptionUsage(
                     resetMonthlySubscriptionUsage(userPackages[i], now), now),
                   resetMonthlySubscriptionUsage(userPackages[i], now))

\* C16: the step that answers a renew request with a well-formed proof of
\* a user whose subscription has lapsed answers 200 and leaves the user a
\* subscription that is active, with trialsUsedInCycle = 0 and a
\* renewalDate in the future.
C16_RenewReactivates ==
  [][\A r \in Slots :
       (/\ reqs[r].kind = "renew"
        /\ reqs[r].pc # "done"
        /\ reqs'[r].pc = "done"
        /\ verifyTransaction([walletAddress |-> reqs[r].proof.walletAddress,
                              transactionId |-> reqs[r].proof.transactionId,
                              amount |-> 0]).success
        /\ Lapsed(reqs[r].userId))
         => /\ reqs'[r].status = 200
            /\ \E i \in DOMAIN userPackages' :
                 /\ userPackages'[i].userId = reqs[r].userId
                 /\ userPackages'[i].isSubscription
                 /\ userPackages'[i].isActive
                 /\ userPackages'[i].trialsUsedInCycle = 0
                 /\ userPackages'[i].renewalDate > now]_vars

\* C17: the step that answers a package read which found an active
\* subscription whose renewalDate the clock has reached answers 200 with
\* the rolled-over record: trialsUsedInCycle = 0, renewalDate one month
\* later, isActive = true.
C17_ReadRollsOver ==
  [][\A r \in Slots :
       (/\ reqs[r].kind = "getPackage"
        /\ reqs[r].pc # "done"
        /\ reqs'[r].pc = "done"
        /\ reqs[r].userPackage.id # 0
        /\ reqs[r].userPackage.isSubscription
        /\ now >= reqs[r].userPackage.renewalDate)
         => /\ reqs'[r].status = 200
            /\ reqs'[r].body.trialsUsedInCycle = 0
            /\ reqs'[r].body.renewalDate = AddMonth(reqs[r].userPackage.renewalDate)
            /\ reqs'[r].body.isActive
            /\ userPackages'[reqs[r].userPackage.id].isActive]_vars

\* C18: of the steps of a command on a subscription, only the settlement
\* of a success changes the package, and it raises trialsUsedInCycle by
\* exactly 1 and changes nothing else; a command ledgered as a success is
\* answered by that settlement.
C18_SubscriptionSuccessFrame ==
  [][\A r \in Slots :
       (/\ reqs[r].kind = "command"
        /\ reqs'[r] # reqs[r]
        /\ reqs[r].userPackage.id # 0
        /\ reqs[r].userPackage.isSubscription)
         => /\ IF reqs[r].pc = "incremented"
               THEN userPackages'
                      = [userPackages EXCEPT
                           ![reqs[r].userPackage.id].trialsUsedInCycle = @ + 1]
               ELSE userPackages' = userPackages
            /\ (reqs'[r].pc = "done" /\ reqs'[r].execution.status = "success")
                 => reqs[r].pc = "incremented"]_vars

\* C19: the data of a successful pipeline result has no field for the card
\* number or the CVV: of the card it holds the type, the last four digits
\* and the expiry month and year; the response carries that data, and the
\* note renders of the card only the last four digits and the expiry.
C19_CardMasked ==
  /\ \A r \in Slots :
       reqs[r].trialResult.success =>
         LET d == reqs[r].trialResult.data
         IN  /\ DOMAIN d = {"service", "signupTime", "accountDetails", "trialEndDate",
                            "profile", "email", "phone", "paymentMethod"}
             /\ DOMAIN d.paymentMethod = {"type", "last4", "expiryMonth", "expiryYear"}
             /\ Len(d.paymentMethod.last4) = 4
             /\ \E c \in CardNumbers : d.paymentMethod.last4 = Last4(c)
             /\ DOMAIN d.accountDetails
                  = {"username", "email", "hasPaymentMethod", "membershipLevel"}
             /\ d.accountDetails.hasPaymentMethod \in BOOLEAN
             /\ (reqs[r].pc = "done" /\ reqs[r].status = 200)
                  => reqs[r].body.trialData = d
  /\ \A n \in DOMAIN notes :
       LET content == notes[n].content
       IN  /\ {content[i][1] : i \in DOMAIN content}
                \cap {"Card Number", "CVV"} = {}
           /\ \A i \in DOMAIN content :
                content[i][1] = "Card Last 4" =>
                  /\ Len(content[i]) = 2
                  /\ Len(content[i][2]) = 4

\* a successful command answered with its trial data and its note written
C19_Witness ==
  \E r \in Slots :
    /\ reqs[r].kind = "command" /\ reqs[r].pc = "done" /\ reqs[r].status = 200
    /\ reqs[r].trialResult.success
    /\ reqs[r].body.trialData.paymentMethod.last4
         = Last4(CHOOSE c \in CardNumbers : TRUE)
    /\ Len(notes) >= 1
    /\ notes[Len(notes)].content[15][2] = reqs[r].body.trialData.paymentMethod.last4

\* C20: a command whose parameter block is wrapped in {} but is not JSON
\* is parsed to the service name and the parameters of the same command
\* without the block (the empty map), is not rejected as a parse failure,
\* and is ledgered with the outcome of its pipeline run.
C20_MalformedParametersIgnored ==
  \A r \in Slots :
    reqs[r].kind = "command" =>
      /\ (reqs[r].command = Cmd_badJson /\ reqs[r].pc \notin {"authorize", "dispatch"})
           => /\ reqs[r].serviceName = MatchCommand(Cmd_generate).serviceName
              /\ DOMAIN reqs[r].parameters
                   = DOMAIN ParseParameters(MatchCommand(Cmd_generate).paramsString)
              /\ DOMAIN reqs[r].parameters = {}
      /\ reqs[r].execution.command = Cmd_badJson
           => /\ reqs[r].execution.serviceName = MatchCommand(Cmd_generate).serviceName
              /\ reqs[r].execution.message \notin {Msg_invalidFormat, Msg_unknownCommand}
              /\ reqs[r].calls # <<>>
                   => reqs[r].execution.status = ExecutionStatus(reqs[r].trialResult)

\* a command with a malformed parameter block that succeeded and was
\* settled against the last credit
C20_Witness ==
  \E r \in Slots :
    /\ reqs[r].kind = "command" /\ reqs[r].pc = "done" /\ reqs[r].status = 200
    /\ reqs[r].execution.command = Cmd_badJson
    /\ reqs[r].execution.status = "success"
    /\ reqs[r].userPackage.trialsRemaining = 1
    /\ userPackages[reqs[r].userPackage.id].trialsRemaining = 0
    /\ Len(notes) >= 1

\* the notes of a user, the success rows of a user, and the commands of
\* the user that have ledgered a success and not yet written its note
NotesOf(u) == Cardinality({i \in DOMAIN notes : notes[i].userId = u})

SuccessRowsOf(u) ==
  Cardinality({i \in DOMAIN commandExecutions :
                 /\ commandExecutions[i].userId = u
                 /\ commandExecutions[i].status = "success"})

NotePending(u) ==
  Cardinality({r \in Slots : reqs[r].userId = u /\ reqs[r].pc \in {"update", "note"}})

\* the proof is of the fixed-length hex format
WellFormed(proof) ==
  isValidWalletAddress(proof.walletAddress) /\ isValidTransactionId(proof.transactionId)

\* the service name of a generateTrial command, up to the next blank, holds
\* a character that is not alphanumeric
HasBadServiceName(command) ==
  LET k     == AfterKeyword(command)
      ws    == RunLen(k.rest, WhitespaceChars)
      token == Split(SubSeqFrom(k.rest, ws + 1), " ")[1]
  IN  /\ k.ok
      /\ ws >= 1
      /\ \E i \in DOMAIN token : token[i] \notin AlnumChars

\* no rollover has touched the subscription since its purchase
InFirstCycle(row) ==
  row.renewalDate = AddMonth(row.purchasedAt) /\ row.transactionId = GoodTx

\* C21: the row a purchase creates is a subscription exactly when the
\* package name contains "Monthly"; a subscription starts with
\* trialsUsedInCycle = 0, renewalDate = purchasedAt + 1 month and the limit
\* of its tier, the Premium limit being the higher; every row starts with
\* trialsRemaining = trialCount and isActive = true.
C21_CreatedPackage ==
  [][\A r \in Slots :
       (reqs[r].pc = "create" /\ reqs'[r].pc = "created") =>
         LET row == userPackages'[Len(userPackages')]
             pkg == getPackage(reqs[r].packageId)
         IN  /\ Len(userPackages') = Len(userPackages) + 1
             /\ row.userId = reqs[r].userId
             /\ row.packageId = reqs[r].packageId
             /\ row.purchasedAt = now
             /\ row.trialsRemaining = pkg.trialCount
             /\ row.isActive
             /\ row.isSubscription <=> NameIncludes(pkg.name, "Monthly")
             /\ row.isSubscription =>
                  /\ row.trialsUsedInCycle = 0
                  /\ row.renewalDate = row.purchasedAt + Month
                  /\ row.trialLimitPerCycle
                       = IF NameIncludes(pkg.name, "Premium")
                         THEN TrialLimitPremium ELSE TrialLimitBasic
                  /\ TrialLimitPremium > TrialLimitBasic]_vars

\* a Monthly Premium subscription was purchased
C21_Witness ==
  \E r \in Slots :
    /\ reqs[r].kind = "purchase" /\ reqs[r].pc = "done" /\ reqs[r].status = 201
    /\ NameIncludes(reqs[r].body.packageName, "Premium")
    /\ reqs[r].body.isSubscription
    /\ reqs[r].body.trialLimitPerCycle = TrialLimitPremium
    /\ reqs[r].body.renewalDate = reqs[r].body.purchasedAt + Month

\* C22: every user has as many notes as success rows in the ledger, less
\* the successful commands that are between their ledger insert and their
\* note: a success creates one note and nothing else creates any.
C22_NoteIffSuccess ==
  \A u \in Users : NotesOf(u) + NotePending(u) = SuccessRowsOf(u)

\* a successful command and a command whose pipeline failed have both
\* been answered
C22_Witness ==
  \E r, q \in Slots :
    /\ reqs[r].pc = "done" /\ reqs[r].execution.status = "success"
    /\ reqs[q].pc = "done" /\ StageFailed(reqs[q])
    /\ reqs[q].execution.status = "error"
    /\ NotesOf(1) = SuccessRowsOf(1)
    /\ NotesOf(1) >= 1

\* C23: no step of a renew or of a package read changes trialsUsedInCycle
\* or renewalDate of a subscription of the caller that is not expired.
C23_NoOpWhenNotExpired ==
  [][\A r \in Slots :
       (reqs[r].kind \in {"renew", "getPackage"} /\ reqs'[r] # reqs[r]) =>
         \A i \in DOMAIN userPackages :
           (/\ userPackages[i].userId = reqs[r].userId
            /\ userPackages[i].isSubscription
            /\ now < userPackages[i].renewalDate)
             => /\ userPackages'[i].trialsUsedInCycle = userPackages[i].trialsUsedInCycle
                /\ userPackages'[i].renewalDate = userPackages[i].renewalDate]_vars

\* C24: a rollover, on renew, on package read or through
\* resetMonthlySubscriptionUsage, leaves trialsUsedInCycle = 0 and
\* renewalDate = the previous renewalDate + 1 month.
C24_RenewalFromPrevious ==
  [][/\ \A r \in Slots :
          (\/ reqs[r].pc = "reset" /\ reqs'[r].pc = "transaction"
           \/ reqs[r].pc = "rollover" /\ reqs'[r].pc = "reread")
            => LET id == reqs[r].userPackage.id
               IN  /\ userPackages'[id].trialsUsedInCycle = 0
                   /\ userPackages'[id].renewalDate
                        = AddMonth(userPackages[id].renewalDate)
     /\ \A i \in DOMAIN userPackages :
          (userPackages[i].isSubscription /\ userPackages[i].isActive)
            => /\ resetMonthlySubscriptionUsage(userPackages[i], now).trialsUsedInCycle = 0
               /\ resetMonthlySubscriptionUsage(userPackages[i], now).renewalDate
                    = AddMonth(userPackages[i].renewalDate)]_vars

\* C25: every command that is being handled is eventually answered.
C25_EveryCommandCompletes ==
  \A r \in Slots :
    (reqs[r].kind = "command" /\ reqs[r].pc \notin {"idle", "done"})
      ~> (reqs[r].pc = "done")

\* C26: a step taken for a request of one user leaves every package,
\* ledger row and note of every other user as it was.
C26_OtherUsersUntouched ==
  [][\A r \in Slots :
       reqs'[r] # reqs[r] =>
         LET u == reqs'[r].userId
         IN  /\ \A i \in DOMAIN userPackages :
                  userPackages[i].userId # u => userPackages'[i] = userPackages[i]
             /\ \A i \in DOMAIN userPackages' \ DOMAIN userPackages :
                  userPackages'[i].userId = u
             /\ \A i \in DOMAIN commandExecutions :
                  commandExecutions[i].userId # u
                    => commandExecutions'[i] = commandExecutions[i]
             /\ \A i \in DOMAIN commandExecutions' \ DOMAIN commandExecutions :
                  commandExecutions'[i].userId = u
             /\ \A i \in DOMAIN notes : notes[i].userId # u => notes'[i] = notes[i]
             /\ \A i \in DOMAIN notes' \ DOMAIN notes : notes'[i].userId = u]_vars

\* the subscription of one user was deactivated by that user's package
\* read while another user holds an active subscription
C26_Witness ==
  \E i, j \in DOMAIN userPackages :
    /\ userPackages[i].userId # userPackages[j].userId
    /\ userPackages[i].isSubscription /\ userPackages[i].isActive
    /\ userPackages[j].isSubscription /\ ~userPackages[j].isActive
    /\ \E r \in Slots : /\ reqs[r].kind = "getPackage" /\ reqs[r].status = 402
                        /\ reqs[r].userId = userPackages[j].userId

\* C27: a purchase or renew whose proof is not well formed changes no
\* package in any of its steps and is answered with a rejection.
C27_BadProofChangesNothing ==
  [][\A r \in Slots :
       (/\ reqs[r].kind \in {"purchase", "renew"}
        /\ reqs[r].pc \notin {"idle", "done"}
        /\ reqs'[r] # reqs[r]
        /\ ~WellFormed(reqs[r].proof))
         => /\ userPackages' = userPackages
            /\ reqs'[r].pc = "done"
            /\ reqs'[r].status \in {400, 404}]_vars

\* a renewal of a used subscription was rejected for its proof and the
\* subscription is as it was
C27_Witness ==
  \E r \in Slots :
    /\ reqs[r].kind = "renew" /\ reqs[r].pc = "done" /\ reqs[r].status = 400
    /\ reqs[r].userPackage.isSubscription
    /\ reqs[r].body.message = <<"Payment verification failed">>
    /\ userPackages[reqs[r].userPackage.id].trialsUsedInCycle = TrialLimitBasic - 1
    /\ userPackages[reqs[r].userPackage.id].transactionId = GoodTx

\* C28: a command is dispatched to the pipeline only with an alphanumeric
\* service name; a generateTrial command whose service name holds another
\* character runs no stage, changes no package in any step, and is
\* answered having left one ledger row of status error and serviceName
\* "unknown".
C28_AlphanumericServiceName ==
  [][\A r \in Slots :
       /\ reqs[r].pc \in {"generate", "record", "update", "note"}
            => /\ reqs[r].serviceName # <<>>
               /\ \A i \in DOMAIN reqs[r].serviceName :
                    reqs[r].serviceName[i] \in AlnumChars
       /\ (/\ reqs[r].kind = "command"
           /\ reqs[r].pc \notin {"idle", "done"}
           /\ HasBadServiceName(reqs[r].command)
           /\ reqs'[r] # reqs[r])
            => /\ userPackages' = userPackages
               /\ reqs'[r].calls = <<>>
               /\ reqs'[r].pc = "done" =>
                    /\ reqs'[r].rows = 1
                    /\ reqs'[r].execution.status = "error"
                    /\ reqs'[r].execution.serviceName = Str_unknown
                    /\ commandExecutions'
                         = Append(commandExecutions, reqs'[r].execution)]_vars

\* C29: a command answered with a result of status error has left the
\* package it was checked against with the trialsRemaining and
\* trialsUsedInCycle it had, and none of the ledger rows of the call is a
\* success row.
C29_ErrorConsumedNothing ==
  \A r \in Slots :
    (/\ reqs[r].kind = "command"
     /\ reqs[r].pc = "done"
     /\ reqs[r].execution.id # 0
     /\ reqs[r].execution.status = "error")
      => /\ reqs[r].userPackage.id # 0 =>
              /\ userPackages[reqs[r].userPackage.id].trialsRemaining
                   = reqs[r].userPackage.trialsRemaining
              /\ userPackages[reqs[r].userPackage.id].trialsUsedInCycle
                   = reqs[r].userPackage.trialsUsedInCycle
         /\ \A i \in DOMAIN commandExecutions :
              i > Len(commandExecutions) - reqs[r].rows
                => commandExecutions[i].status # "success"

\* C30: once every request has been answered, a subscription that is in
\* the cycle it was purchased in has counted every success ledgered for it.
C30_NoLostIncrement ==
  \A i \in DOMAIN userPackages :
    (/\ Quiescent
     /\ userPackages[i].isSubscription
     /\ InFirstCycle(userPackages[i]))
      => userPackages[i].trialsUsedInCycle = successes[i]

====
